---- MODULE Spec2Model ----
(***************************************************************************)
(* Model of custom_components/e-bloc/sensor.py: the polling coordinator    *)
(* EBlocDataUpdateCoordinator (session, authentication flag, one refresh   *)
(* cycle of five sequential POST requests) and the sensors that read the   *)
(* snapshot the coordinator publishes.                                     *)
(*                                                                         *)
(* A JSON object is modelled as the sequence of its values in insertion    *)
(* order (a Python dict keeps insertion order); the empty dict {} is <<>>. *)
(* Python's None is the string "None"; an exception raised by a pure       *)
(* function is the string naming it ("IndexError").                        *)
(***************************************************************************)
EXTENDS Integers, Sequences, FiniteSets, TLC

VARIABLES
    session,              \* self.session: "None", or a ClientSession that
                          \* is "open" or "closed"
    authenticated,        \* self.authenticated
    data,                 \* coordinator.data: NoData or the published dict
    last_update_success,  \* coordinator.last_update_success
    last_exception,       \* cause of the UpdateFailed of the last cycle
    pc,                   \* await point of the running _async_update_data
    lista_luni,           \* local of _async_update_data
    luna_activa,          \* local of _async_update_data
    home,                 \* value of the "home" entry being built
    index,                \* value of the "index" entry being built
    cycle,                \* number of refresh cycles started so far
    requests,             \* POSTs issued by the current (or last) cycle
    faults,               \* what went wrong with the responses of that cycle
    startAuth,            \* self.authenticated when that cycle started
    stamp,                \* per key of data, the cycle that fetched it
    seen,                 \* stamps of the keys one sensor read observed
    lunaIn,               \* argument of a direct _get_luna_activa call
    lunaOut,              \* its result ("unset" before the call)
    view                  \* one sensor read: the sensor, what the snapshot
                          \* holds for it, and what the read gave

vars == <<session, authenticated, data, last_update_success, last_exception,
          pc, lista_luni, luna_activa, home, index, cycle, requests,
          faults, startAuth, stamp, seen, lunaIn, lunaOut, view>>

cycleVars == <<session, authenticated, data, last_update_success,
               last_exception, pc, lista_luni, luna_activa, home, index,
               cycle, requests, faults, startAuth, stamp, seen>>

----------------------------------------------------------------------------
(* Bounds *)

\* refresh cycles run in one behaviour
MaxCycles == 3
\* longest month list a direct _get_luna_activa call is given
MaxMonths == 4
\* longest month list the portal returns inside a refresh cycle
MaxCycleMonths == 2
\* largest magnitude of the raw integers a sensor is read against, besides
\* the sampled larger ones
MaxRawInt == 120

----------------------------------------------------------------------------
(* Values exchanged with the portal *)

None == "None"
EmptyMap == <<>>
\* coordinator.data before the first successful refresh (Python None),
\* modelled as the mapping with no key
NoData == <<>>

URL_LOGIN == "URL_LOGIN"
URL_LISTA_LUNI == "URL_LISTA_LUNI"
URL_HOME == "URL_HOME"
URL_INDEX == "URL_INDEX"
URL_RECEIPTS == "URL_RECEIPTS"

DataUrls == {URL_LISTA_LUNI, URL_HOME, URL_INDEX, URL_RECEIPTS}

\* month ids: the portal's strings; "" is the falsy one
Lunas == {"", "m1", "m2"}
Opens == {"0", "1"}
MonthEntries == [luna : Lunas, open : Opens]

SeqsUpTo(S, n) == UNION {[1..k -> S] : k \in 0..n}

MonthLists == SeqsUpTo(MonthEntries, MaxMonths)
\* inside a refresh cycle the portal lists its months under non-empty ids,
\* neighbours under different ones, each open or closed
CycleLuna(i) == IF i % 2 = 1 THEN "m1" ELSE "m2"
CycleMonthLists ==
    UNION {{[i \in 1..k |-> [luna |-> CycleLuna(i), open |-> o[i]]] :
              o \in [1..k -> Opens]} : k \in 0..MaxCycleMonths}

\* what response.status / response.text() of the login POST can be;
\* exc = TRUE is session.post raising (transport error)
LoginResponses ==
    [exc : {FALSE}, status : {200, 403}, marker : BOOLEAN]
    \cup {[exc |-> TRUE, status |-> 0, marker |-> FALSE]}

\* what a data POST can answer: exc is session.post raising, parses is
\* whether response.json() decodes the body, json the decoded body
DataResponses(bodies) ==
    [exc : {FALSE}, status : {200}, parses : {TRUE}, json : bodies]
    \cup {[exc |-> FALSE, status |-> 200, parses |-> FALSE, json |-> EmptyMap],
          [exc |-> FALSE, status |-> 500, parses |-> TRUE, json |-> EmptyMap],
          [exc |-> TRUE, status |-> 0, parses |-> FALSE, json |-> EmptyMap]}

\* what the session lets through: session.post on a closed ClientSession
\* raises before anything is sent
Answers(S) == IF session = "closed" THEN {r \in S : r.exc} ELSE S

HomeJson == {<<"h1">>}
IndexJson == {<<"i1">>}
ReceiptsJson == {<<"r1">>}

----------------------------------------------------------------------------
(* _get_luna_activa, sensor.py:39-42 *)

Min(a, b) == IF a <= b THEN a ELSE b

\* {k: lista_luni[k] for k in list(lista_luni.keys())[:3]}
first_three_months(l) == SubSeq(l, 1, Min(3, Len(l)))

\* next((v['luna'] for ... if v['open'] == '0'), None)
NextClosed(ft) ==
    LET closed == {i \in 1..Len(ft) : ft[i].open = "0"}
    IN  IF closed = {} THEN None
        ELSE ft[CHOOSE i \in closed : \A j \in closed : i <= j].luna

\* Python truth value of a month id or None
Truthy(v) == v # None /\ v # ""

\* _get_luna_activa with a guard for the empty list: returns None
get_luna_activa_guarded(l) ==
    LET ft == first_three_months(l)
        x == NextClosed(ft)
    IN  IF Truthy(x) THEN x
        ELSE IF Len(ft) = 0 THEN None
        ELSE ft[1].luna

\* "x or list(first_three_months.values())[0]['luna']": the right operand is
\* evaluated when x is falsy, and indexing an empty list raises IndexError
_get_luna_activa(l) ==
    LET ft == first_three_months(l)
        x == NextClosed(ft)
    IN  IF Truthy(x) THEN x
        ELSE IF Len(ft) = 0 THEN "IndexError"
        ELSE ft[1].luna

----------------------------------------------------------------------------
(* _authenticate and _fetch_data, sensor.py:72-91 *)

\* the login check without the marker test
LoginOk_StatusOnly(r) == ~r.exc /\ r.status = 200

\* response.status == 200 and "Acces online proprietari" in text
LoginOk(r) == ~r.exc /\ r.status = 200 /\ r.marker

\* what _fetch_data returns for the response r
_fetch_data(r) ==
    IF r.exc THEN EmptyMap
    ELSE IF r.status = 200
         THEN (IF r.parses THEN r.json ELSE EmptyMap)
         ELSE EmptyMap

\* why the login response r is no proof of a login
LoginFaults(r) ==
    IF r.exc THEN {[url |-> URL_LOGIN, kind |-> "transport"]}
    ELSE (IF r.status # 200
          THEN {[url |-> URL_LOGIN, kind |-> "status"]} ELSE {})
         \cup (IF ~r.marker
                THEN {[url |-> URL_LOGIN, kind |-> "marker"]} ELSE {})

\* why the response r to the POST to url carries no JSON body
FetchFaults(url, r) ==
    IF r.exc THEN {[url |-> url, kind |-> "transport"]}
    ELSE IF r.status # 200 THEN {[url |-> url, kind |-> "status"]}
    ELSE IF ~r.parses THEN {[url |-> url, kind |-> "body"]}
    ELSE {}

\* a form field the payload does not carry
NoLuna == "-"

\* self.config, the entry data given at setup
config == [pIdAsoc |-> "asoc", pIdAp |-> "ap", pUser |-> "user",
           pPass |-> "pass"]

\* the month payload sent without its pLuna field
Req_InitialPayload(url, luna) ==
    [url |-> url,
     pIdAsoc |-> IF url = URL_LOGIN THEN NoLuna ELSE config.pIdAsoc,
     pIdAp |-> IF url = URL_LOGIN THEN NoLuna ELSE config.pIdAp,
     pLuna |-> NoLuna]

\* a POST: its URL and the pIdAsoc, pIdAp, pLuna fields of its payload
\* (lines 52, 56-60; the login payload of line 74 carries none of them)
Req(url, luna) ==
    [url |-> url,
     pIdAsoc |-> IF url = URL_LOGIN THEN NoLuna ELSE config.pIdAsoc,
     pIdAp |-> IF url = URL_LOGIN THEN NoLuna ELSE config.pIdAp,
     pLuna |-> luna]

----------------------------------------------------------------------------
(* The refresh cycle, sensor.py:44-70 *)

\* no sensor read is being followed
NoView == [sensor |-> "-", in |-> [shape |-> "empty",
                                   raw |-> [t |-> "absent", n |-> 0,
                                            s |-> <<>>]],
           out |-> [kind |-> "unset", exc |-> "None", neg |-> FALSE,
                    whole |-> 0, frac |-> 0]]

NoStamp == [home |-> 0, index |-> 0, receipts |-> 0, lista_luni |-> 0,
            luna_activa |-> 0]

Init ==
    /\ session = None
    /\ authenticated = FALSE
    /\ data = NoData
    /\ last_update_success = TRUE
    /\ last_exception = None
    /\ pc = "idle"
    /\ lista_luni = EmptyMap
    /\ luna_activa = None
    /\ home = EmptyMap
    /\ index = EmptyMap
    /\ cycle = 0
    /\ requests = <<>>
    /\ faults = {}
    /\ startAuth = FALSE
    /\ stamp = NoStamp
    /\ seen = NoStamp
    /\ lunaIn = EmptyMap
    /\ lunaOut = "unset"
    /\ view = NoView

ResetLocals ==
    /\ lista_luni' = EmptyMap
    /\ luna_activa' = None
    /\ home' = EmptyMap
    /\ index' = EmptyMap

\* the except clause returning {} instead of raising
RaiseUpdateFailed_ReturnEmpty(cause) ==
    /\ pc' = "idle"
    /\ last_update_success' = TRUE
    /\ last_exception' = None
    /\ ResetLocals
    /\ data' = EmptyMap
    /\ stamp' = NoStamp

\* except Exception as e: raise UpdateFailed(...): the coordinator keeps
\* its data and records the failure
RaiseUpdateFailed(cause) ==
    /\ pc' = "idle"
    /\ last_update_success' = FALSE
    /\ last_exception' = cause
    /\ ResetLocals
    /\ UNCHANGED <<data, stamp>>

\* the cycle posting the home request before the month list is known
StartCycle_HomeFirst ==
    /\ pc = "idle"
    /\ cycle < MaxCycles
    /\ cycle' = cycle + 1
    /\ session' = IF session = None THEN "open" ELSE session
    /\ startAuth' = authenticated
    /\ faults' = {}
    /\ IF ~authenticated
       THEN /\ requests' = <<Req(URL_LOGIN, NoLuna)>>
            /\ pc' = "login"
       ELSE /\ requests' = <<Req(URL_HOME, None)>>
            /\ pc' = "home"
    /\ UNCHANGED <<authenticated, data, last_update_success, last_exception,
                   lista_luni, luna_activa, home, index, stamp, seen,
                   lunaIn, lunaOut, view>>

\* the cycle going to the month list without looking at the flag
StartCycle_SkipLogin ==
    /\ pc = "idle"
    /\ cycle < MaxCycles
    /\ cycle' = cycle + 1
    /\ session' = IF session = None THEN "open" ELSE session
    /\ startAuth' = authenticated
    /\ faults' = {}
    /\ requests' = <<Req(URL_LISTA_LUNI, NoLuna)>>
    /\ pc' = "lista_luni"
    /\ UNCHANGED <<authenticated, data, last_update_success, last_exception,
                   lista_luni, luna_activa, home, index, stamp, seen,
                   lunaIn, lunaOut, view>>

\* lines 46-53 up to the first await. The host coordinator calls
\* _async_update_data; cycles are taken one at a time (pc = "idle").
StartCycle ==
    /\ pc = "idle"
    /\ cycle < MaxCycles
    /\ cycle' = cycle + 1
    /\ session' = IF session = None THEN "open" ELSE session
    /\ startAuth' = authenticated
    /\ faults' = {}
    /\ IF ~authenticated
       THEN /\ requests' = <<Req(URL_LOGIN, NoLuna)>>
            /\ pc' = "login"
       ELSE /\ requests' = <<Req(URL_LISTA_LUNI, NoLuna)>>
            /\ pc' = "lista_luni"
    /\ UNCHANGED <<authenticated, data, last_update_success, last_exception,
                   lista_luni, luna_activa, home, index, stamp, seen,
                   lunaIn, lunaOut, view>>

\* _authenticate setting the flag before it looks at the response
LoginResponse_FlagFirst ==
    /\ pc = "login"
    /\ authenticated' = TRUE
    /\ \E r \in Answers(LoginResponses) :
         /\ faults' = faults \cup LoginFaults(r)
         /\ IF LoginOk(r)
            THEN /\ requests' = Append(requests, Req(URL_LISTA_LUNI, NoLuna))
                 /\ pc' = "lista_luni"
                 /\ UNCHANGED <<data, stamp, last_update_success,
                                last_exception, lista_luni, luna_activa,
                                home, index>>
            ELSE /\ RaiseUpdateFailed("Autentificare")
                 /\ UNCHANGED requests
    /\ UNCHANGED <<session, cycle, startAuth, seen, lunaIn, lunaOut, view>>

\* _authenticate resumes with the login response (lines 76-82), then
\* line 53 posts the month-list request
LoginResponse ==
    /\ pc = "login"
    /\ \E r \in Answers(LoginResponses) :
         /\ faults' = faults \cup LoginFaults(r)
         /\ IF LoginOk(r)
            THEN /\ authenticated' = TRUE
                 /\ requests' = Append(requests, Req(URL_LISTA_LUNI, NoLuna))
                 /\ pc' = "lista_luni"
                 /\ UNCHANGED <<data, stamp, last_update_success,
                                last_exception, lista_luni, luna_activa,
                                home, index>>
            ELSE /\ RaiseUpdateFailed("Autentificare")
                 /\ UNCHANGED <<authenticated, requests>>
    /\ UNCHANGED <<session, cycle, startAuth, seen, lunaIn, lunaOut, view>>

\* line 53 resumes with the month list, line 54 computes the active month,
\* lines 56-63 post the home request
ListaLuniResponse ==
    /\ pc = "lista_luni"
    /\ \E r \in Answers(DataResponses(CycleMonthLists)) :
         LET ll == _fetch_data(r)
             la == _get_luna_activa(ll)
         IN  /\ faults' = faults \cup FetchFaults(URL_LISTA_LUNI, r)
             /\ IF la = "IndexError"
                THEN /\ RaiseUpdateFailed("IndexError")
                     /\ UNCHANGED requests
                ELSE /\ lista_luni' = ll
                     /\ luna_activa' = la
                     /\ requests' = Append(requests, Req(URL_HOME, la))
                     /\ pc' = "home"
                     /\ UNCHANGED <<data, stamp, last_update_success,
                                    last_exception, home, index>>
    /\ UNCHANGED <<session, authenticated, cycle, startAuth, seen, lunaIn,
                   lunaOut, view>>

\* the home result written into the published dict as soon as it arrives
HomeResponse_InPlace ==
    /\ pc = "home"
    /\ \E r \in Answers(DataResponses(HomeJson)) :
         /\ home' = _fetch_data(r)
         /\ data' = IF data = NoData THEN data
                    ELSE [data EXCEPT !.home = _fetch_data(r)]
         /\ faults' = faults \cup FetchFaults(URL_HOME, r)
    /\ stamp' = IF data = NoData THEN stamp
                ELSE [stamp EXCEPT !.home = cycle]
    /\ requests' = Append(requests, Req(URL_INDEX, luna_activa))
    /\ pc' = "index"
    /\ UNCHANGED <<session, authenticated, last_update_success,
                   last_exception, lista_luni, luna_activa, index, cycle,
                   startAuth, seen, lunaIn, lunaOut, view>>

\* a failed home fetch taken as a sign that the portal session expired
HomeResponse_ResetAuth ==
    /\ pc = "home"
    /\ \E r \in Answers(DataResponses(HomeJson)) :
         /\ home' = _fetch_data(r)
         /\ authenticated' = (FetchFaults(URL_HOME, r) = {})
         /\ faults' = faults \cup FetchFaults(URL_HOME, r)
    /\ requests' = Append(requests, Req(URL_INDEX, luna_activa))
    /\ pc' = "index"
    /\ UNCHANGED <<session, data, last_update_success,
                   last_exception, lista_luni, luna_activa, index, cycle,
                   startAuth, stamp, seen, lunaIn, lunaOut, view>>

\* line 63 resumes, line 64 posts the index request
HomeResponse ==
    /\ pc = "home"
    /\ \E r \in Answers(DataResponses(HomeJson)) :
         /\ home' = _fetch_data(r)
         /\ faults' = faults \cup FetchFaults(URL_HOME, r)
    /\ requests' = Append(requests, Req(URL_INDEX, luna_activa))
    /\ pc' = "index"
    /\ UNCHANGED <<session, authenticated, data, last_update_success,
                   last_exception, lista_luni, luna_activa, index, cycle,
                   startAuth, stamp, seen, lunaIn, lunaOut, view>>

\* line 64 resumes, line 65 posts the receipts request
IndexResponse ==
    /\ pc = "index"
    /\ \E r \in Answers(DataResponses(IndexJson)) :
         /\ index' = _fetch_data(r)
         /\ faults' = faults \cup FetchFaults(URL_INDEX, r)
    /\ requests' = Append(requests, Req(URL_RECEIPTS, luna_activa))
    /\ pc' = "receipts"
    /\ UNCHANGED <<session, authenticated, data, last_update_success,
                   last_exception, lista_luni, luna_activa, home, cycle,
                   startAuth, stamp, seen, lunaIn, lunaOut, view>>

\* the dict of lines 62-68
Snapshot(h, i, r, ll, la) ==
    [home |-> h, index |-> i, receipts |-> r, lista_luni |-> ll,
     luna_activa |-> la]

\* line 65 resumes, the dict is returned and becomes coordinator.data
ReceiptsResponse ==
    /\ pc = "receipts"
    /\ \E r \in Answers(DataResponses(ReceiptsJson)) :
         /\ data' = Snapshot(home, index, _fetch_data(r), lista_luni,
                             luna_activa)
         /\ faults' = faults \cup FetchFaults(URL_RECEIPTS, r)
    /\ stamp' = Snapshot(cycle, cycle, cycle, cycle, cycle)
    /\ last_update_success' = TRUE
    /\ last_exception' = None
    /\ pc' = "idle"
    /\ ResetLocals
    /\ UNCHANGED <<session, authenticated, cycle, requests, startAuth, seen,
                   lunaIn, lunaOut, view>>

\* a sensor property (native_value, extra_state_attributes) reads
\* self._coordinator.data; a property has no await, so the read is one step.
\* Sensors exist only after the first refresh succeeded (lines 95-116).
SensorRead ==
    /\ data # NoData
    /\ seen' = stamp
    /\ UNCHANGED <<session, authenticated, data, last_update_success,
                   last_exception, pc, lista_luni, luna_activa, home, index,
                   cycle, requests, faults, startAuth, stamp, lunaIn,
                   lunaOut, view>>

\* the transport closes the session between two cycles; nothing in
\* sensor.py looks at session.closed or calls close()
SessionCloses ==
    /\ pc = "idle"
    /\ session = "open"
    /\ session' = "closed"
    /\ UNCHANGED <<authenticated, data, last_update_success, last_exception,
                   pc, lista_luni, luna_activa, home, index, cycle,
                   requests, faults, startAuth, stamp, seen, lunaIn,
                   lunaOut, view>>

\* a sensor that reports itself available whenever a snapshot exists
available_HasData == data # NoData

\* EBlocSensorBase.available, the same for all sixteen sensors
available == last_update_success

Next ==
    \/ StartCycle
    \/ LoginResponse
    \/ ListaLuniResponse
    \/ HomeResponse
    \/ IndexResponse
    \/ ReceiptsResponse
    \/ SensorRead
    \/ SessionCloses

Spec == Init /\ [][Next]_vars

----------------------------------------------------------------------------
(* Direct calls of _get_luna_activa *)

InitLuna ==
    /\ session = None
    /\ authenticated = FALSE
    /\ data = NoData
    /\ last_update_success = TRUE
    /\ last_exception = None
    /\ pc = "idle"
    /\ lista_luni = EmptyMap
    /\ luna_activa = None
    /\ home = EmptyMap
    /\ index = EmptyMap
    /\ cycle = 0
    /\ requests = <<>>
    /\ faults = {}
    /\ startAuth = FALSE
    /\ stamp = NoStamp
    /\ seen = NoStamp
    /\ lunaIn \in MonthLists
    /\ lunaOut = "unset"
    /\ view = NoView

CallLunaActiva ==
    /\ lunaOut = "unset"
    /\ lunaOut' = _get_luna_activa(lunaIn)
    /\ UNCHANGED <<cycleVars, lunaIn, view>>

NextLuna == CallLunaActiva

SpecLuna == InitLuna /\ [][NextLuna]_vars

----------------------------------------------------------------------------
(* The sensors' projections, sensor.py:151-299 *)

(* A raw JSON field: absent from its dict, null, an integer or a string.   *)
(* A string is the sequence of its characters.                             *)
Absent == [t |-> "absent", n |-> 0, s |-> <<>>]
Null == [t |-> "null", n |-> 0, s |-> <<>>]
IntV(k) == [t |-> "int", n |-> k, s |-> <<>>]
StrV(cs) == [t |-> "str", n |-> 0, s |-> cs]

RawInts == (-MaxRawInt..MaxRawInt) \cup {999, 1000, 1001, 1234, 123456}
RawStrs == {<<>>, <<"a", "b", "c">>, <<"1", "2", "x">>, <<"0">>,
            <<"1", "2", "3", "4">>, <<"-", "5">>,
            <<"1", "2", "3", "4", "5", "6">>}
Raws == {Absent, Null} \cup {IntV(k) : k \in RawInts}
        \cup {StrV(cs) : cs \in RawStrs}

\* where the field sits: the dataset is {} ("empty"), the dataset lacks the
\* entry's key ("nokey"), or the entry is there and holds raw
ViewInputs ==
    [shape : {"empty", "nokey"}, raw : {Absent}]
    \cup [shape : {"entry"}, raw : Raws]

\* dataset.get(key, {}).get(field): the field as the chained gets find it
Field(in) == IF in.shape = "entry" THEN in.raw ELSE Absent

\* dict.get(key, default)
py_get(raw, default) == IF raw.t = "absent" THEN default ELSE raw

\* the truth value Python's `if x` gives None, an int or a str
py_truth(raw) ==
    CASE raw.t = "int" -> raw.n # 0
      [] raw.t = "str" -> raw.s # <<>>
      [] OTHER -> FALSE

Digits == <<"0", "1", "2", "3", "4", "5", "6", "7", "8", "9">>
IsDigit(c) == \E d \in 1..10 : Digits[d] = c
DigitVal(c) == (CHOOSE d \in 1..10 : Digits[d] = c) - 1

RECURSIVE DigitsVal(_)
DigitsVal(cs) ==
    IF cs = <<>> THEN 0
    ELSE 10 * DigitsVal(SubSeq(cs, 1, Len(cs) - 1)) + DigitVal(cs[Len(cs)])

AllDigits(cs) == cs # <<>> /\ \A i \in 1..Len(cs) : IsDigit(cs[i])

\* int(x) for None, an int, or a string of an optional "-" and digits;
\* exc names the exception raised, "None" when there is none
py_int(raw) ==
    CASE raw.t = "int" -> [exc |-> None, n |-> raw.n]
      [] raw.t = "str" ->
           IF AllDigits(raw.s)
           THEN [exc |-> None, n |-> DigitsVal(raw.s)]
           ELSE IF raw.s # <<>> /\ raw.s[1] = "-" /\ AllDigits(Tail(raw.s))
           THEN [exc |-> None, n |-> 0 - DigitsVal(Tail(raw.s))]
           ELSE [exc |-> "ValueError", n |-> 0]
      [] OTHER -> [exc |-> "TypeError", n |-> 0]

\* float(x) on the same values: an integral float or the same exception
py_float(raw) == py_int(raw)

Abs(k) == IF k < 0 THEN 0 - k ELSE k

(* What a read gives: an exception, None, nothing (no receipt to format),  *)
(* or the decimal k / scale as sign, whole part and fraction digits.       *)
Unset == [kind |-> "unset", exc |-> None, neg |-> FALSE, whole |-> 0,
          frac |-> 0]
Raises(e) == [Unset EXCEPT !.kind = "raise", !.exc = e]
GivesNone == [Unset EXCEPT !.kind = "none"]
GivesNothing == [Unset EXCEPT !.kind = "empty"]
Dec(k, scale) ==
    [kind |-> "dec", exc |-> None, neg |-> k < 0,
     whole |-> Abs(k) \div scale, frac |-> Abs(k) % scale]

\* ClientSensor.extra_state_attributes, "Restanta" (line 170):
\* f"{int(data.get('datorie', 0)) / 100:.2f} RON"
ClientSensor_Restanta(in) ==
    LET i == py_int(py_get(Field(in), IntV(0)))
    IN  IF i.exc # None THEN Raises(i.exc) ELSE Dec(i.n, 100)

\* RestantaSensor.native_value (lines 297-299):
\* round(int(datorie)/100, 2) if datorie else 0.00
RestantaSensor_native_value(in) ==
    LET datorie == py_get(Field(in), Null)
        i == py_int(datorie)
    IN  IF py_truth(datorie)
        THEN (IF i.exc # None THEN Raises(i.exc) ELSE Dec(i.n, 100))
        ELSE Dec(0, 100)

\* PlatiSensor.extra_state_attributes, the amount of one receipt (line 267):
\* f"... {int(r.get('suma', 0))/100:.2f} RON" for r in receipts.values()
PlatiSensor_suma(in) ==
    IF in.shape = "empty" THEN GivesNothing
    ELSE LET i == py_int(py_get(Field(in), IntV(0)))
         IN  IF i.exc # None THEN Raises(i.exc) ELSE Dec(i.n, 100)

\* ApaReceSensor.native_value (lines 187-193), key "2"
ApaReceSensor_native_value(in) ==
    LET f == py_float(py_get(Field(in), IntV(0)))
    IN  IF f.exc \in {"ValueError", "TypeError"} THEN GivesNone
        ELSE Dec(f.n, 1000)

\* ApaCaldaSensor.native_value (lines 204-210), key "3"
ApaCaldaSensor_native_value(in) ==
    LET f == py_float(py_get(Field(in), IntV(0)))
    IN  IF f.exc \in {"ValueError", "TypeError"} THEN GivesNone
        ELSE Dec(f.n, 1000)

\* CalduraSensor.native_value (lines 221-227), key "4"
CalduraSensor_native_value(in) ==
    LET f == py_float(py_get(Field(in), IntV(0)))
    IN  IF f.exc \in {"ValueError", "TypeError"} THEN GivesNone
        ELSE Dec(f.n, 1000)

\* the electricity sensor catching ValueError only
CurentSensor_OnlyValueError(in) ==
    LET f == py_float(py_get(Field(in), IntV(0)))
    IN  IF f.exc = "ValueError" THEN GivesNone
        ELSE IF f.exc # None THEN Raises(f.exc)
        ELSE Dec(f.n, 1000)

\* CurentSensor.native_value (lines 238-244), key "5"
CurentSensor_native_value(in) ==
    LET f == py_float(py_get(Field(in), IntV(0)))
    IN  IF f.exc \in {"ValueError", "TypeError"} THEN GivesNone
        ELSE Dec(f.n, 1000)

MoneySensors == {"ClientSensor", "RestantaSensor", "PlatiSensor"}
MeterSensors == {"ApaReceSensor", "ApaCaldaSensor", "CalduraSensor",
                 "CurentSensor"}

ReadOf(sensor, in) ==
    CASE sensor = "ClientSensor" -> ClientSensor_Restanta(in)
      [] sensor = "RestantaSensor" -> RestantaSensor_native_value(in)
      [] sensor = "PlatiSensor" -> PlatiSensor_suma(in)
      [] sensor = "ApaReceSensor" -> ApaReceSensor_native_value(in)
      [] sensor = "ApaCaldaSensor" -> ApaCaldaSensor_native_value(in)
      [] sensor = "CalduraSensor" -> CalduraSensor_native_value(in)
      [] sensor = "CurentSensor" -> CurentSensor_native_value(in)

InitView ==
    /\ session = None
    /\ authenticated = FALSE
    /\ data = NoData
    /\ last_update_success = TRUE
    /\ last_exception = None
    /\ pc = "idle"
    /\ lista_luni = EmptyMap
    /\ luna_activa = None
    /\ home = EmptyMap
    /\ index = EmptyMap
    /\ cycle = 0
    /\ requests = <<>>
    /\ faults = {}
    /\ startAuth = FALSE
    /\ stamp = NoStamp
    /\ seen = NoStamp
    /\ lunaIn = EmptyMap
    /\ lunaOut = "unset"
    /\ view \in [sensor : MoneySensors \cup MeterSensors, in : ViewInputs,
                 out : {Unset}]

ReadView ==
    /\ view.out = Unset
    /\ view' = [view EXCEPT !.out = ReadOf(view.sensor, view.in)]
    /\ UNCHANGED <<cycleVars, lunaIn, lunaOut>>

NextView == ReadView

SpecView == InitView /\ [][NextView]_vars

----------------------------------------------------------------------------
(* Properties *)

Keys == {"home", "index", "receipts", "lista_luni", "luna_activa"}
Urls(reqs) == {reqs[i].url : i \in 1..Len(reqs)}
FaultAt(url, kind) == [url |-> url, kind |-> kind] \in faults
Published == pc = "idle" /\ cycle > 0 /\ stamp["home"] = cycle
CycleEnds == pc # "idle" /\ pc' = "idle"

\* C1: a cycle that ends anywhere but at the return statement reports
\* failure and leaves data as it was; data changes only in the step that
\* ends a cycle which posted all four data requests, and that step reports
\* success.
C1_NeverPartiallyPublished ==
    [][ /\ (CycleEnds /\ pc # "receipts")
            => /\ ~last_update_success'
               /\ last_exception' # None
               /\ data' = data
               /\ stamp' = stamp
        /\ (data' # data \/ stamp' # stamp)
            => /\ CycleEnds
               /\ pc = "receipts"
               /\ DataUrls \subseteq Urls(requests)
               /\ last_update_success'
               /\ last_exception' = None ]_vars

\* a cycle has failed while an earlier snapshot is still published
C1_Witness ==
    /\ pc = "idle"
    /\ ~last_update_success
    /\ data # NoData
    /\ stamp["home"] < cycle

\* C2: every key of the published dict was fetched by the same cycle, and
\* so was every key one sensor read observed, also while a later cycle runs.
Uniform(s) == \A k1, k2 \in Keys : s[k1] = s[k2]
C2_SnapshotConsistent ==
    /\ Uniform(stamp)
    /\ Uniform(seen)
    /\ (data = NoData) <=> (stamp = NoStamp)
    /\ seen["home"] <= stamp["home"]

\* a sensor read the second snapshot while a third cycle is in flight
C2_Witness ==
    /\ seen["home"] = 2
    /\ stamp["home"] = 2
    /\ pc = "index"
    /\ cycle = 3

\* C4: when a cycle has ended in which the fetch of one of the four
\* datasets failed (transport error, status, body), it ended by publishing
\* a snapshot, and that dataset is the empty map in it.
KeyOf(u) ==
    CASE u = URL_LISTA_LUNI -> "lista_luni"
      [] u = URL_HOME -> "home"
      [] u = URL_INDEX -> "index"
      [] u = URL_RECEIPTS -> "receipts"
FetchFailurePublishes(u) ==
    (pc = "idle" /\ \E f \in faults : f.url = u)
        => (Published /\ last_update_success /\ data[KeyOf(u)] = EmptyMap)
C4_FetchFailureStillPublishes == \A u \in DataUrls : FetchFailurePublishes(u)

\* C5: after a transport error of the login or month-list request the cycle
\* has failed, has published nothing and has posted no home, index or
\* receipts request; a cycle whose only faults are transport errors of the
\* home, index or receipts request ends by publishing.
C5_TopLevelTransportAborts ==
    /\ (FaultAt(URL_LOGIN, "transport") \/ FaultAt(URL_LISTA_LUNI, "transport"))
        => /\ pc = "idle"
           /\ ~last_update_success
           /\ last_exception # None
           /\ stamp["home"] < cycle
           /\ Urls(requests) \cap {URL_HOME, URL_INDEX, URL_RECEIPTS} = {}
    /\ (/\ faults # {}
        /\ \A f \in faults :
             f.kind = "transport"
             /\ f.url \in {URL_HOME, URL_INDEX, URL_RECEIPTS})
        => /\ pc \in {"index", "receipts", "idle"}
           /\ pc = "idle" => (Published /\ last_update_success)

\* the month-list request met a transport error in a cycle after a
\* published one
C5_Witness ==
    /\ FaultAt(URL_LISTA_LUNI, "transport")
    /\ data # NoData
    /\ pc = "idle"

\* C6: a home, index or receipts request appears in a cycle only after the
\* month-list request, when its response has been consumed, and carries the
\* active month computed from that response.
C6_MonthListFirst ==
    \A i \in 1..Len(requests) :
        requests[i].url \in {URL_HOME, URL_INDEX, URL_RECEIPTS}
        => /\ \E j \in 1..(i - 1) : requests[j].url = URL_LISTA_LUNI
           /\ pc \notin {"login", "lista_luni"}
           /\ requests[i].pLuna \in Lunas
           /\ pc # "idle" =>
                /\ luna_activa = _get_luna_activa(lista_luni)
                /\ requests[i].pLuna = luna_activa

\* a cycle that logged in has posted all five requests
C6_Witness ==
    /\ pc = "receipts"
    /\ Len(requests) = 5

\* C7: the flag turns True only in the step that consumes a login response
\* with status 200 and the marker; a cycle that started with the flag True
\* posts no login request.
C7_AuthOnlyOnMarkedLogin ==
    [][ /\ (~authenticated /\ authenticated')
            => /\ pc = "login"
               /\ \A f \in faults' : f.url # URL_LOGIN
        /\ startAuth' => URL_LOGIN \notin Urls(requests') ]_vars

\* a cycle started with the flag already True and is fetching
C7_Witness ==
    /\ startAuth
    /\ authenticated
    /\ pc = "home"

\* C8: after a failed login the cycle has failed with the authentication
\* error and the flag is False; the cycle after it starts with the login
\* request.
C8_FailedLoginRetried ==
    /\ (\E f \in faults : f.url = URL_LOGIN)
        => /\ pc = "idle"
           /\ ~last_update_success
           /\ last_exception = "Autentificare"
           /\ ~authenticated
    /\ (last_exception = "Autentificare" /\ pc # "idle")
        => /\ ~startAuth
           /\ requests[1].url = URL_LOGIN

\* the cycle after a failed login has logged in and asks for the month list
C8_Witness ==
    /\ last_exception = "Autentificare"
    /\ pc = "lista_luni"
    /\ Len(requests) = 2

\* C9: for a non-empty month list the result is the month id of the first
\* of the first three entries with open = "0", else that of the first entry.
FirstClosedOrFirst(l) ==
    LET closed == {i \in 1..Min(3, Len(l)) : l[i].open = "0"}
    IN  IF closed = {} THEN l[1].luna
        ELSE l[CHOOSE i \in closed : \A j \in closed : i <= j].luna
C9_FirstClosedOfFirstThree ==
    (lunaOut # "unset" /\ Len(lunaIn) >= 1)
        => lunaOut = FirstClosedOrFirst(lunaIn)

\* C10: for the empty month list the result is None, not an exception.
C10_EmptyListYieldsNone ==
    (lunaOut # "unset" /\ lunaIn = EmptyMap) => lunaOut = None

\* C11: every sensor's available flag is the outcome of the most recent
\* completed cycle: whether that cycle was the one that published what data
\* holds. After a failed cycle the sensors are unavailable and the snapshot
\* published before is still in place.
LastCompleted == IF pc = "idle" THEN cycle ELSE cycle - 1
C11_AvailableIsLastOutcome ==
    /\ LastCompleted > 0 => (available <=> stamp["home"] = LastCompleted)
    /\ (~available /\ stamp["home"] > 0) => data # NoData

\* the cycle after a failed one is in flight: the sensors are still
\* unavailable and still hold the snapshot of an earlier cycle
C11_Witness ==
    /\ ~available
    /\ data # NoData
    /\ pc = "home"

\* C16: once the flag is True it stays True in every step, whatever the
\* step's response was, and no step taken with the flag True posts a login
\* request.
PostedNow(url) ==
    /\ requests' # requests
    /\ requests'[Len(requests')].url = url
C16_AuthenticatedMonotone ==
    [][ authenticated => (authenticated' /\ ~PostedNow(URL_LOGIN)) ]_vars

\* a cycle with failed fetches is followed by one that starts with the
\* month-list request, not with a login
C16_Witness ==
    /\ authenticated
    /\ ~last_update_success
    /\ data # NoData
    /\ pc = "lista_luni"
    /\ requests = <<Req(URL_LISTA_LUNI, NoLuna)>>

\* C17: a month-list, home, index or receipts request is posted only with
\* the flag True, and the requests of a cycle are a prefix of login (when
\* the cycle started unauthenticated), month list, home, index, receipts.
UrlSeq(reqs) == [i \in 1..Len(reqs) |-> reqs[i].url]
CycleOrder(auth) ==
    IF auth
    THEN <<URL_LISTA_LUNI, URL_HOME, URL_INDEX, URL_RECEIPTS>>
    ELSE <<URL_LOGIN, URL_LISTA_LUNI, URL_HOME, URL_INDEX, URL_RECEIPTS>>
IsPrefix(a, b) == Len(a) <= Len(b) /\ a = SubSeq(b, 1, Len(a))
C17_AuthenticatedOrderedRequests ==
    [][ /\ (\E u \in DataUrls : PostedNow(u)) => authenticated'
        /\ IsPrefix(UrlSeq(requests'), CycleOrder(startAuth')) ]_vars

\* a cycle that had to log in is waiting for its last response
C17_Witness ==
    /\ ~startAuth
    /\ pc = "receipts"
    /\ UrlSeq(requests) = CycleOrder(FALSE)

\* C18: the luna_activa of the published dict is _get_luna_activa of its
\* lista_luni, and the home, index and receipts requests of the cycle that
\* published it carried that luna_activa as pLuna and the configured
\* pIdAsoc and pIdAp.
C18_SnapshotMonthMatchesRequests ==
    /\ data # NoData
        => data["luna_activa"] = _get_luna_activa(data["lista_luni"])
    /\ Published
        => \A u \in {URL_HOME, URL_INDEX, URL_RECEIPTS} :
             \E i \in 1..Len(requests) :
                /\ requests[i].url = u
                /\ requests[i].pLuna = data["luna_activa"]
                /\ requests[i].pIdAsoc = config.pIdAsoc
                /\ requests[i].pIdAp = config.pIdAp

\* a snapshot was published whose active month is not its first month
C18_Witness ==
    /\ Published
    /\ Len(data["lista_luni"]) >= 2
    /\ data["luna_activa"] # data["lista_luni"][1].luna

\* C13: no session exists before the first cycle, and a cycle that has
\* posted a request is not holding a session the transport has closed.
C13_NoRequestOnClosedSession ==
    /\ cycle = 0 => session = None
    /\ cycle > 0 => session # None
    /\ pc # "idle" => session = "open"

\* the integer a decimal result stands for, in units of its last digit
Scaled(out, scale) ==
    (IF out.neg THEN -1 ELSE 1) * (out.whole * scale + out.frac)
WasRead == view.out.kind # "unset"
NonNumeric(raw) ==
    \/ raw.t = "null"
    \/ /\ raw.t = "str"
       /\ \/ raw.s = <<>>
          \/ \E i \in 1..Len(raw.s) : ~IsDigit(raw.s[i]) /\ raw.s[i] # "-"

\* C12: no read of a sensor raises, whatever the snapshot holds: an empty
\* dataset, a missing key, a null or a non-numeric field.
C12_ReadsNeverRaise ==
    WasRead => view.out.kind # "raise"

\* C14: against an integer c of cents the three monetary reads give c / 100
\* with two decimals (123456 gives 1234.56); against an absent or null
\* field they give 0.00.
IsDecimal(out, k, scale) ==
    /\ out.kind = "dec"
    /\ out.frac \in 0..(scale - 1)
    /\ Scaled(out, scale) = k
    /\ out.neg => k < 0
C14_MonetaryProjection ==
    (WasRead /\ view.sensor \in MoneySensors /\ view.out.kind # "empty")
    => /\ Field(view.in).t = "int"
            => IsDecimal(view.out, Field(view.in).n, 100)
       /\ Field(view.in) = IntV(123456)
            => (view.out.whole = 1234 /\ view.out.frac = 56)
       /\ Field(view.in).t \in {"absent", "null"}
            => IsDecimal(view.out, 0, 100)

\* C15: against an integer n the four meter reads give n / 1000 with three
\* decimals (1234 gives 1.234); against a null or non-numeric field they
\* give None and do not raise.
C15_MeterProjection ==
    (WasRead /\ view.sensor \in MeterSensors)
    => /\ Field(view.in).t = "int"
            => IsDecimal(view.out, Field(view.in).n, 1000)
       /\ Field(view.in) = IntV(1234)
            => (view.out.whole = 1 /\ view.out.frac = 234)
       /\ NonNumeric(Field(view.in)) => view.out.kind = "none"

\* the electricity sensor was read against a null index_nou and gave None
C15_Witness ==
    /\ view.sensor = "CurentSensor"
    /\ view.in = [shape |-> "entry", raw |-> Null]
    /\ view.out.kind = "none"

====
